---------------------------- MODULE Spec2Model ----------------------------
(***************************************************************************)
(* Trajectory generation of proj1_pkg: paths/trajectories.py (Trajectory,  *)
(* LinearTrajectory, CircularTrajectory, PolygonalTrajectory) and the      *)
(* construction sites of scripts/follow_ar.py.                             *)
(*                                                                         *)
(* Numbers.  A Python/numpy float is modelled by an exact extended         *)
(* rational <<n, d>> in lowest terms with d >= 0: d > 0 is the finite      *)
(* value n/d, <<1,0>> is +inf, <<-1,0>> is -inf and <<0,0>> is nan (the    *)
(* values numpy produces when an array is divided by zero).  Rounding is   *)
(* not modelled: every finite result is the real-number result.            *)
(* The operator / is the true division of Python 3, also on integers.      *)
(* Angles are held as rational multiples of np.pi (the angle q stands for  *)
(* q*pi), and the results of np.cos/np.sin as s*cos(a*pi) in a canonical   *)
(* form, so that equality of two results is equality of real numbers.      *)
(***************************************************************************)
EXTENDS Integers, Sequences, FiniteSets, TLC

VARIABLES traj, ret, exc, stdout, memo

vars == <<traj, ret, exc, stdout, memo>>

\* no object / no value / no exception yet
NoTraj == [kind |-> "none"]
NoCall == [op |-> "none"]
NoExc == [type |-> "none"]
NoOutput == [lines |-> 0, last |-> <<>>]

-----------------------------------------------------------------------------
(* Bounds of the model *)

\* query times are k/GridDen for k in 0..MaxTick
GridDen == 2
MaxTick == 4
\* total_time arguments range over -1..MaxT
MaxT == 2
\* the output stream is followed for at most MaxPrints lines
MaxPrints == 2
\* number of joints of the arm in the IK bridge
NumJoints == 2

-----------------------------------------------------------------------------
(* Float arithmetic *)

Abs(n) == IF n < 0 THEN -n ELSE n

Sign(n) == IF n < 0 THEN -1 ELSE IF n > 0 THEN 1 ELSE 0

RECURSIVE GCD(_, _)
GCD(a, b) == IF b = 0 THEN a ELSE GCD(b, a % b)

\* the float n/d, d >= 0, in lowest terms
Norm(n, d) ==
    IF d = 0 THEN <<Sign(n), 0>>
    ELSE LET g == GCD(Abs(n), d) IN <<n \div g, d \div g>>

R(n) == <<n, 1>>
Zero == <<0, 1>>
One == <<1, 1>>
Half == <<1, 2>>
NaN == <<0, 0>>

IsNaN(x) == x = NaN
IsInf(x) == x[2] = 0 /\ x[1] # 0

\* x + y on floats: inf + inf = inf, inf - inf = nan, nan absorbs
FAdd(x, y) ==
    IF IsNaN(x) \/ IsNaN(y) THEN NaN
    ELSE IF IsInf(x) /\ IsInf(y) THEN (IF x = y THEN x ELSE NaN)
    ELSE IF IsInf(x) THEN x
    ELSE IF IsInf(y) THEN y
    ELSE Norm(x[1] * y[2] + y[1] * x[2], x[2] * y[2])

FNeg(x) == <<-x[1], x[2]>>

FSub(x, y) == FAdd(x, FNeg(y))

\* x * y on floats: 0 * inf = nan
FMul(x, y) ==
    IF IsNaN(x) \/ IsNaN(y) THEN NaN
    ELSE Norm(x[1] * y[1], x[2] * y[2])

\* numpy array division x / y: a finite x over zero is +-inf, 0/0 is nan
FDiv(x, y) ==
    IF IsNaN(x) \/ IsNaN(y) THEN NaN
    ELSE IF IsInf(x) /\ IsInf(y) THEN NaN
    ELSE IF y[1] < 0 THEN Norm(-(x[1] * y[2]), x[2] * (-y[1]))
    ELSE Norm(x[1] * y[2], x[2] * y[1])

\* x <= y on floats: every comparison with nan is False
FLe(x, y) ==
    IF IsNaN(x) \/ IsNaN(y) THEN FALSE
    ELSE IF x = y THEN TRUE
    ELSE IF IsInf(x) THEN x[1] < 0
    ELSE IF IsInf(y) THEN y[1] > 0
    ELSE x[1] * y[2] <= y[1] * x[2]

FSq(x) == FMul(x, x)

FLt(x, y) == FLe(x, y) /\ x # y

\* numpy arrays of three floats
VAdd(u, v) == [i \in 1..3 |-> FAdd(u[i], v[i])]
VSub(u, v) == [i \in 1..3 |-> FSub(u[i], v[i])]
VScale(k, v) == [i \in 1..3 |-> FMul(k, v[i])]
VDivS(v, k) == [i \in 1..3 |-> FDiv(v[i], k)]
Vec(x, y, z) == <<R(x), R(y), R(z)>>
Zeros3 == <<Zero, Zero, Zero>>

-----------------------------------------------------------------------------
(* np.cos and np.sin.  The argument q is the angle q*pi; the result         *)
(* [s, a] is the real number s*cos(a*pi), with a = 0 when the value is      *)
(* rational (cos is rational at a rational multiple of pi only where it is *)
(* 0, +-1/2 or +-1) and 0 < a < 1/2 otherwise.                              *)

\* floor of the finite float x
Floor(x) == x[1] \div x[2]

Cos(q) ==
    LET m == FSub(q, R(2 * Floor(FDiv(q, R(2)))))
        m1 == IF FLe(m, One) THEN m ELSE FSub(R(2), m)
        sgn == IF FLe(m1, Half) THEN One ELSE R(-1)
        a == IF FLe(m1, Half) THEN m1 ELSE FSub(One, m1)
    IN  IF a = Zero THEN [s |-> sgn, a |-> Zero]
        ELSE IF a = Half THEN [s |-> Zero, a |-> Zero]
        ELSE IF a = <<1, 3>> THEN [s |-> FMul(sgn, Half), a |-> Zero]
        ELSE [s |-> sgn, a |-> a]

Sin(q) == Cos(FSub(q, Half))

TNeg(c) == IF c.s = Zero THEN c ELSE [s |-> FNeg(c.s), a |-> c.a]

TZero == [s |-> Zero, a |-> Zero]

\* the number k + c * pi^p * cos(a*pi), in canonical form
MkSym(k, c, p, a) ==
    IF c = Zero THEN [k |-> k, c |-> Zero, p |-> 0, a |-> Zero]
    ELSE IF a = Zero /\ p = 0 THEN [k |-> FAdd(k, c), c |-> Zero, p |-> 0, a |-> Zero]
    ELSE [k |-> k, c |-> c, p |-> p, a |-> a]

SNum(x) == MkSym(x, Zero, 0, Zero)

-----------------------------------------------------------------------------
(* LinearTrajectory *)

\* the identity quaternion in place of the gripper-down one
DesiredOrientationIdentity == <<Zero, Zero, Zero, One>>

\* np.array([0, 1, 0, 0])
DesiredOrientation == <<Zero, One, Zero, Zero>>

\* create_route with v_max = total_time * acceleration
LinearTrajectoryWrongPeak(start_position, goal_position, total_time) ==
    LET distance == VSub(goal_position, start_position)
        acceleration == VDivS(VScale(R(4), distance), FSq(total_time))
    IN  [kind |-> "linear",
         total_time |-> total_time,
         start_position |-> start_position,
         goal_position |-> goal_position,
         distance |-> distance,
         acceleration |-> acceleration,
         v_max |-> VScale(total_time, acceleration),
         desired_orientation |-> DesiredOrientation]

\* LinearTrajectory.__init__ -> Trajectory.__init__ and create_route
LinearTrajectory(start_position, goal_position, total_time) ==
    LET distance == VSub(goal_position, start_position)
        acceleration == VDivS(VScale(R(4), distance), FSq(total_time))
        v_max == VScale(FDiv(total_time, R(2)), acceleration)
    IN  [kind |-> "linear",
         total_time |-> total_time,
         start_position |-> start_position,
         goal_position |-> goal_position,
         distance |-> distance,
         acceleration |-> acceleration,
         v_max |-> v_max,
         desired_orientation |-> DesiredOrientation]

\* the position of the first branch of target_pose (time <= total_time/2)
LinearPosFirstHalf(self, time) ==
    VAdd(self.start_position, VScale(FSq(time), VScale(Half, self.acceleration)))

\* the position of the second branch of target_pose
LinearPosSecondHalf(self, time) ==
    LET half == FDiv(self.total_time, R(2))
        first_half == VAdd(self.start_position,
                           VScale(FSq(half), VScale(Half, self.acceleration)))
        time_remaining == FSub(time, half)
        dec == VSub(VScale(time_remaining, self.v_max),
                    VScale(FSq(time_remaining), VScale(Half, self.acceleration)))
    IN  VAdd(first_half, dec)

LinearTargetPose(self, time) ==
    LET pos == IF FLe(time, FDiv(self.total_time, R(2)))
               THEN LinearPosFirstHalf(self, time)
               ELSE LinearPosSecondHalf(self, time)
    IN  pos \o self.desired_orientation

\* linear_vel of the first branch of target_velocity
LinearVelFirstHalf(self, time) == VScale(time, self.acceleration)

\* the second branch decelerating from time 0 instead of total_time/2
LinearVelSecondHalfNoOffset(self, time) ==
    VSub(self.v_max, VScale(time, self.acceleration))

\* linear_vel of the second branch of target_velocity
LinearVelSecondHalf(self, time) ==
    VSub(self.v_max,
         VScale(FSub(time, FDiv(self.total_time, R(2))), self.acceleration))

LinearTargetVelocity(self, time) ==
    LET linear_vel == IF FLe(time, FDiv(self.total_time, R(2)))
                      THEN LinearVelFirstHalf(self, time)
                      ELSE LinearVelSecondHalf(self, time)
    IN  linear_vel \o Zeros3

-----------------------------------------------------------------------------
(* CircularTrajectory.  angular_acceleration, angular_v_max, theta and      *)
(* theta_dot are held in units of np.pi.                                    *)

\* CircularTrajectory.__init__; the float division by total_time ** 2
\* raises ZeroDivisionError when total_time is 0
CircularRaises(center_position, radius, total_time) == FSq(total_time) = Zero

\* __init__ with an angular acceleration that sweeps half of the angle
CircularTrajectoryHalfSweep(center_position, radius, total_time) ==
    LET angular_acceleration == FDiv(R(4), FSq(total_time))
    IN  [kind |-> "circular",
         total_time |-> total_time,
         center_position |-> center_position,
         radius |-> radius,
         angular_acceleration |-> angular_acceleration,
         angular_v_max |-> FMul(FDiv(total_time, R(2)), angular_acceleration),
         desired_orientation |-> DesiredOrientation]

CircularTrajectory(center_position, radius, total_time) ==
    LET angular_acceleration == FDiv(R(2 * 4), FSq(total_time))
        angular_v_max == FMul(FDiv(total_time, R(2)), angular_acceleration)
    IN  [kind |-> "circular",
         total_time |-> total_time,
         center_position |-> center_position,
         radius |-> radius,
         angular_acceleration |-> angular_acceleration,
         angular_v_max |-> angular_v_max,
         desired_orientation |-> DesiredOrientation]

\* theta of the first branch (time <= total_time/2)
CircularThetaFirstHalf(self, time) ==
    FMul(FMul(Half, self.angular_acceleration), FSq(time))

\* theta of the second branch; np.pi is 1 in units of np.pi
CircularThetaSecondHalf(self, time) ==
    LET time_left == FSub(time, FDiv(self.total_time, R(2)))
    IN  FSub(FAdd(One, FMul(self.angular_v_max, time_left)),
             FMul(FMul(Half, self.angular_acceleration), FSq(time_left)))

\* theta as target_pose and target_velocity both compute it
CircularTheta(self, time) ==
    IF FLe(time, FDiv(self.total_time, R(2)))
    THEN CircularThetaFirstHalf(self, time)
    ELSE CircularThetaSecondHalf(self, time)

\* theta_dot of the first branch of target_velocity
CircularThetaDotFirstHalf(self, time) == FMul(self.angular_acceleration, time)

\* the second branch decelerating from time 0 instead of total_time/2
CircularThetaDotSecondHalfFromStart(self, time) ==
    FSub(self.angular_v_max, FMul(self.angular_acceleration, time))

\* theta_dot of the second branch of target_velocity
CircularThetaDotSecondHalf(self, time) ==
    FSub(self.angular_v_max,
         FMul(self.angular_acceleration, FSub(time, FDiv(self.total_time, R(2)))))

CircularThetaDot(self, time) ==
    IF FLe(time, FDiv(self.total_time, R(2)))
    THEN CircularThetaDotFirstHalf(self, time)
    ELSE CircularThetaDotSecondHalf(self, time)

\* pos_d of CircularTrajectory.target_pose, the array it prints and returns
CircularPosD(self, time) ==
    LET theta == CircularTheta(self, time)
        dir == <<Cos(theta), Sin(theta), TZero>>
    IN  [i \in 1..3 |->
            MkSym(self.center_position[i], FMul(self.radius, dir[i].s), 0, dir[i].a)]

CircularTargetPose(self, time) ==
    CircularPosD(self, time) \o [i \in 1..4 |-> SNum(self.desired_orientation[i])]

CircularTargetVelocity(self, time) ==
    LET theta == CircularTheta(self, time)
        theta_dot == CircularThetaDot(self, time)
        dir == <<TNeg(Sin(theta)), Cos(theta), TZero>>
        vel_d == [i \in 1..3 |->
                    MkSym(Zero, FMul(FMul(self.radius, theta_dot), dir[i].s), 1, dir[i].a)]
    IN  vel_d \o [i \in 1..3 |-> SNum(Zero)]

-----------------------------------------------------------------------------
(* PolygonalTrajectory *)

NumSegments == 4

\* points[i] raises IndexError when points has fewer than 4 rows
PolygonalRaises(start_position, ar_position, points, total_time) ==
    Len(points) < NumSegments

\* current_position never advanced to the previous target_position
CurrentPositionNotAdvanced(start_position, ar_position, points, i) ==
    start_position

\* the position a segment starts from: current_position before iteration i
CurrentPosition(start_position, ar_position, points, i) ==
    IF i = 1 THEN start_position
    ELSE VAdd(ar_position, points[i - 1])

PolygonalTrajectory(start_position, ar_position, points, total_time) ==
    [kind |-> "polygonal",
     total_time |-> total_time,
     trajectories |->
        [i \in 1..NumSegments |->
            LinearTrajectory(CurrentPosition(start_position, ar_position, points, i),
                             VAdd(ar_position, points[i]),
                             FDiv(total_time, R(4)))]]

\* the loop comparing with time < (i+1)*total_time/4
SelectTrajectoryStrict(self, time) ==
    LET hits == {i \in 1..NumSegments :
                    FLt(time, FDiv(FMul(R(i), self.total_time), R(4)))}
    IN  IF hits = {} THEN 1
        ELSE CHOOSE i \in hits : \A j \in hits : i <= j

\* index (from 1) of the sub-trajectory the loop of target_pose and
\* target_velocity selects: the first i with time <= (i+1)*total_time/4,
\* trajectories[0] when there is none
SelectTrajectory(self, time) ==
    LET hits == {i \in 1..NumSegments :
                    FLe(time, FDiv(FMul(R(i), self.total_time), R(4)))}
    IN  IF hits = {} THEN 1
        ELSE CHOOSE i \in hits : \A j \in hits : i <= j

PolygonalTargetPose(self, time) ==
    LinearTargetPose(self.trajectories[SelectTrajectory(self, time)], FDiv(time, R(4)))

PolygonalTargetVelocity(self, time) ==
    LinearTargetVelocity(self.trajectories[SelectTrajectory(self, time)], FDiv(time, R(4)))

-----------------------------------------------------------------------------
(* Dispatch on the class of the object *)

TargetPoseOf(self, time) ==
    IF self.kind = "linear" THEN LinearTargetPose(self, time)
    ELSE IF self.kind = "circular" THEN CircularTargetPose(self, time)
    ELSE PolygonalTargetPose(self, time)

TargetVelocityOf(self, time) ==
    IF self.kind = "linear" THEN LinearTargetVelocity(self, time)
    ELSE IF self.kind = "circular" THEN CircularTargetVelocity(self, time)
    ELSE PolygonalTargetVelocity(self, time)

\* the output stream after a call of target_pose: print(pos_d) in
\* CircularTrajectory.target_pose adds a line; the stream is held as the
\* number of lines written and the last of them
Written(out, self, time) ==
    IF self.kind = "circular"
    THEN [lines |-> out.lines + 1, last |-> CircularPosD(self, time)]
    ELSE out

-----------------------------------------------------------------------------
(* Inputs *)

Positions == {Vec(0, 0, 0), Vec(1, 0, 0), Vec(0, 2, 1)}

Durations == {R(k) : k \in -1..MaxT}

Radii == {Zero, One, R(2)}

\* points of follow_ar.get_trajectory
FollowArPoints == <<Vec(0, 0, 0), <<<<1, 5>>, <<1, 5>>, Zero>>,
                    <<<<1, 5>>, <<-1, 5>>, Zero>>, Vec(0, 0, 0)>>

PointLists == {<<>>,
               <<Vec(1, 0, 0), Vec(1, 1, 0), Vec(0, 1, 0)>>,
               <<Vec(1, 0, 0), Vec(1, 1, 0), Vec(0, 1, 0), Vec(0, 0, 0)>>,
               FollowArPoints}

Times == {Norm(k, GridDen) : k \in 0..MaxTick}

JointVectors == {[j \in 1..NumJoints |-> v] : v \in {Zero, One}}

\* what kin.inverse_kinematics returns: joint positions, or None on failure
IKFailure == [ok |-> FALSE]
IKResults == {[ok |-> TRUE, joints |-> q] : q \in JointVectors} \cup {IKFailure}

\* an exception of the interpreter: its arguments name no time and no pose
Exception(type) == [type |-> type, args |-> <<>>]

-----------------------------------------------------------------------------
(* The program *)

Init ==
    /\ traj = NoTraj
    /\ ret = NoCall
    /\ exc = NoExc
    /\ stdout = NoOutput
    /\ memo = NoCall

\* The constructors; ret holds the last call made, here the constructor
\* call with its arguments.

\* trajectory = LinearTrajectory(start_position, goal_position, total_time)
NewLinear(start_position, goal_position, total_time) ==
    /\ traj.kind = "none"
    /\ exc.type = "none"
    /\ traj' = LinearTrajectory(start_position, goal_position, total_time)
    /\ ret' = [op |-> "LinearTrajectory", start_position |-> start_position,
               goal_position |-> goal_position, total_time |-> total_time]
    /\ UNCHANGED <<exc, stdout, memo>>

\* trajectory = CircularTrajectory(center_position, radius, total_time)
NewCircular(center_position, radius, total_time) ==
    /\ traj.kind = "none"
    /\ exc.type = "none"
    /\ IF CircularRaises(center_position, radius, total_time)
       THEN /\ exc' = Exception("ZeroDivisionError")
            /\ traj' = traj
       ELSE /\ traj' = CircularTrajectory(center_position, radius, total_time)
            /\ exc' = exc
    /\ ret' = [op |-> "CircularTrajectory", center_position |-> center_position,
               radius |-> radius, total_time |-> total_time]
    /\ UNCHANGED <<stdout, memo>>

\* trajectory = PolygonalTrajectory(start_position, ar_position, points, total_time)
NewPolygonal(start_position, ar_position, points, total_time) ==
    /\ traj.kind = "none"
    /\ exc.type = "none"
    /\ IF PolygonalRaises(start_position, ar_position, points, total_time)
       THEN /\ exc' = Exception("IndexError")
            /\ traj' = traj
       ELSE /\ traj' = PolygonalTrajectory(start_position, ar_position, points, total_time)
            /\ exc' = exc
    /\ ret' = [op |-> "PolygonalTrajectory", start_position |-> start_position,
               ar_position |-> ar_position, points |-> points,
               total_time |-> total_time]
    /\ UNCHANGED <<stdout, memo>>

\* target_pose keeping the last query time in the object
TargetPoseWithCursor(time, keep) ==
    /\ traj.kind # "none"
    /\ exc.type = "none"
    /\ Written(stdout, traj, time).lines <= MaxPrints
    /\ ret' = [op |-> "target_pose", time |-> time, val |-> TargetPoseOf(traj, time)]
    /\ stdout' = Written(stdout, traj, time)
    /\ memo' = IF keep THEN ret' ELSE memo
    /\ traj' = [traj EXCEPT !.total_time = FAdd(time, One)]
    /\ exc' = exc

\* trajectory.target_pose(time); keep: the caller holds on to the result
TargetPose(time, keep) ==
    /\ traj.kind # "none"
    /\ exc.type = "none"
    /\ Written(stdout, traj, time).lines <= MaxPrints
    /\ ret' = [op |-> "target_pose", time |-> time, val |-> TargetPoseOf(traj, time)]
    /\ stdout' = Written(stdout, traj, time)
    /\ memo' = IF keep THEN ret' ELSE memo
    /\ UNCHANGED <<traj, exc>>

\* trajectory.target_velocity(time)
TargetVelocity(time, keep) ==
    /\ traj.kind # "none"
    /\ exc.type = "none"
    /\ ret' = [op |-> "target_velocity", time |-> time, val |-> TargetVelocityOf(traj, time)]
    /\ memo' = IF keep THEN ret' ELSE memo
    /\ UNCHANGED <<traj, exc, stdout>>

\* trajectory.target_joint_velocities(kin, current_joint_positions, time),
\* where kin.inverse_kinematics returns ik_result; on failure that is None,
\* and None - current_joint_positions raises TypeError
TargetJointVelocities(ik_result, current_joint_positions, time) ==
    /\ traj.kind # "none"
    /\ exc.type = "none"
    /\ Written(stdout, traj, time).lines <= MaxPrints
    /\ stdout' = Written(stdout, traj, time)
    /\ LET target_pose == TargetPoseOf(traj, time)
           request == [i \in 1..3 |-> target_pose[i]]
       IN  IF ~ik_result.ok
           THEN /\ exc' = Exception("TypeError")
                /\ ret' = [op |-> "target_joint_velocities", time |-> time,
                           pose |-> request, ik |-> ik_result, returned |-> FALSE]
           ELSE /\ exc' = exc
                /\ ret' = [op |-> "target_joint_velocities", time |-> time,
                           pose |-> request, ik |-> ik_result, returned |-> TRUE,
                           val |-> [j \in 1..NumJoints |->
                                      FSub(ik_result.joints[j],
                                           current_joint_positions[j])]]
    /\ UNCHANGED <<traj, memo>>

Construct ==
    \/ \E s \in Positions, g \in Positions, T \in Durations : NewLinear(s, g, T)
    \/ \E c \in Positions, r \in Radii, T \in Durations : NewCircular(c, r, T)
    \/ \E s \in Positions, a \in Positions, pts \in PointLists, T \in Durations :
            NewPolygonal(s, a, pts, T)

Query ==
    \/ \E t \in Times : TargetPose(t, FALSE)
    \/ \E t \in Times : TargetVelocity(t, FALSE)

\* the same calls by a caller that may hold on to a result
QueryKeep ==
    \/ \E t \in Times, keep \in BOOLEAN : TargetPose(t, keep)
    \/ \E t \in Times, keep \in BOOLEAN : TargetVelocity(t, keep)

Bridge ==
    \E q \in IKResults, cur \in JointVectors, t \in Times :
        TargetJointVelocities(q, cur, t)

Next == Construct \/ Query \/ Bridge

Spec == Init /\ [][Next]_vars

NextKeep == Construct \/ QueryKeep

SpecKeep == Init /\ [][NextKeep]_vars

-----------------------------------------------------------------------------
(* Properties *)

Position(pose) == [i \in 1..3 |-> pose[i]]
Orientation(pose) == [i \in 1..4 |-> pose[3 + i]]
Linear(twist) == [i \in 1..3 |-> twist[i]]
Angular(twist) == [i \in 1..3 |-> twist[3 + i]]

Positive(x) == FLt(Zero, x)

IsPose == ret.op = "target_pose"
IsVelocity == ret.op = "target_velocity"

\* C1: a LinearTrajectory with total_time > 0 is at start_position at time 0
\* and at goal_position at time total_time, both as computed from the object
\* and as returned by a call of target_pose.
C1_LinearEndpoints ==
    (traj.kind = "linear" /\ Positive(traj.total_time)) =>
        /\ Position(LinearTargetPose(traj, Zero)) = traj.start_position
        /\ Position(LinearTargetPose(traj, traj.total_time)) = traj.goal_position
        /\ (IsPose /\ ret.time = Zero) => Position(ret.val) = traj.start_position
        /\ (IsPose /\ ret.time = traj.total_time) =>
                Position(ret.val) = traj.goal_position

\* a line between two different points has been asked for its pose at total_time
C1_Witness ==
    /\ traj.kind = "linear"
    /\ Positive(traj.total_time)
    /\ traj.start_position # traj.goal_position
    /\ IsPose
    /\ ret.time = traj.total_time
    /\ Position(ret.val) = traj.goal_position

\* C4: for a Linear or Circular trajectory with total_time > 0 the linear part
\* of target_velocity is the zero vector at time 0 and at time total_time.
C4_RestToRest ==
    /\ (traj.kind = "linear" /\ Positive(traj.total_time)) =>
        /\ Linear(LinearTargetVelocity(traj, Zero)) = Zeros3
        /\ Linear(LinearTargetVelocity(traj, traj.total_time)) = Zeros3
        /\ (IsVelocity /\ ret.time \in {Zero, traj.total_time}) =>
                Linear(ret.val) = Zeros3
    /\ (traj.kind = "circular" /\ Positive(traj.total_time)) =>
        /\ Linear(CircularTargetVelocity(traj, Zero)) = [i \in 1..3 |-> SNum(Zero)]
        /\ Linear(CircularTargetVelocity(traj, traj.total_time))
                = [i \in 1..3 |-> SNum(Zero)]
        /\ (IsVelocity /\ ret.time \in {Zero, traj.total_time}) =>
                Linear(ret.val) = [i \in 1..3 |-> SNum(Zero)]

\* a moving line has been asked for its velocity at total_time
C4_Witness ==
    /\ traj.kind = "linear"
    /\ Positive(traj.total_time)
    /\ traj.start_position # traj.goal_position
    /\ IsVelocity
    /\ ret.time = traj.total_time
    /\ Linear(ret.val) = Zeros3

\* C5: for a CircularTrajectory with total_time > 0, theta is 0 at time 0 and
\* 2*pi at time total_time, and the position at both times is
\* center_position + radius*(1, 0, 0).
C5_FullRevolution ==
    (traj.kind = "circular" /\ Positive(traj.total_time)) =>
        LET home == [i \in 1..3 |->
                        SNum(FAdd(traj.center_position[i],
                                  IF i = 1 THEN traj.radius ELSE Zero))]
        IN  /\ CircularTheta(traj, Zero) = Zero
            /\ CircularTheta(traj, traj.total_time) = R(2)
            /\ Position(CircularTargetPose(traj, Zero)) = home
            /\ Position(CircularTargetPose(traj, traj.total_time)) = home
            /\ (IsPose /\ ret.time \in {Zero, traj.total_time}) =>
                    Position(ret.val) = home

\* a circle of positive radius has been asked for its pose at total_time
C5_Witness ==
    /\ traj.kind = "circular"
    /\ Positive(traj.total_time)
    /\ Positive(traj.radius)
    /\ IsPose
    /\ ret.time = traj.total_time
    /\ ret.val[1] = SNum(FAdd(traj.center_position[1], traj.radius))

\* a value as it appears in an array returned by a trajectory of this kind
Returned(kind, v) ==
    IF kind = "circular" THEN [i \in DOMAIN v |-> SNum(v[i])] ELSE v

\* C10: for every trajectory variant and every query time the orientation
\* part of target_pose is the quaternion [0, 1, 0, 0] and the angular part of
\* target_velocity is the zero vector.
C10_OrientationHeld ==
    traj.kind # "none" =>
        /\ \A t \in Times :
            /\ Orientation(TargetPoseOf(traj, t))
                    = Returned(traj.kind, <<Zero, One, Zero, Zero>>)
            /\ Angular(TargetVelocityOf(traj, t))
                    = Returned(traj.kind, <<Zero, Zero, Zero>>)
        /\ IsPose =>
                Orientation(ret.val) = Returned(traj.kind, <<Zero, One, Zero, Zero>>)
        /\ IsVelocity =>
                Angular(ret.val) = Returned(traj.kind, <<Zero, Zero, Zero>>)

\* a polygon has returned a pose away from its start with the orientation held
C10_Witness ==
    /\ traj.kind = "polygonal"
    /\ Positive(traj.total_time)
    /\ IsPose
    /\ ret.time = traj.total_time
    /\ Position(ret.val) # traj.trajectories[1].start_position
    /\ Orientation(ret.val) = <<Zero, One, Zero, Zero>>

\* C8: once a trajectory is constructed, no call changes any of its stored
\* parameters (those of its sub-trajectories included), and a call returns
\* the value an earlier call with the same time returned, whatever calls
\* were made in between.
C8_QueriesPure ==
    [][/\ traj.kind # "none" => traj' = traj
       /\ (memo'.op # "none" /\ ret'.op = memo'.op /\ ret'.time = memo'.time)
            => ret'.val = memo'.val]_vars

\* a circle was asked for its pose twice, the second time at a time whose
\* result the caller had kept
C8_Witness ==
    /\ traj.kind = "circular"
    /\ stdout.lines = 2
    /\ memo.op = "target_pose"
    /\ IsPose
    /\ ret.time = memo.time
    /\ ret.val = memo.val

\* C6: a trajectory object exists only with total_time > 0 and, for a circle,
\* radius > 0, and a constructor that fails does so with InvalidParameter.
C6_ConstructionValidated ==
    /\ traj.kind # "none" => Positive(traj.total_time)
    /\ traj.kind = "circular" => Positive(traj.radius)
    /\ (traj.kind = "none" /\ exc.type # "none") => exc.type = "InvalidParameter"

\* C7: when the IK solver fails inside target_joint_velocities, the call
\* ends in a KinematicsError that carries the time and the requested
\* position, and returns nothing.
C7_IKFailureReported ==
    (ret.op = "target_joint_velocities" /\ ~ret.ik.ok) =>
        /\ ~ret.returned
        /\ exc.type = "KinematicsError"
        /\ exc.args = <<ret.time, ret.pose>>

\* C9: no call on a constructed trajectory writes to the output stream.
C9_QueriesSilent ==
    [][traj.kind # "none" => stdout' = stdout]_vars

\* the limit of the positions a LinearTrajectory returns just after time
LinearPosAfter(self, time) ==
    IF FLt(time, FDiv(self.total_time, R(2)))
    THEN LinearPosFirstHalf(self, time)
    ELSE LinearPosSecondHalf(self, time)

\* C3: the position is continuous in time: at total_time/2 the two branches
\* of a Linear or Circular trajectory meet, and at each boundary
\* i*total_time/4 (i = 1, 2, 3) of a Polygonal trajectory the position
\* returned at the boundary is the limit of the positions returned just
\* after it, which come from the next segment.
C3_PositionContinuous ==
    (traj.kind # "none" /\ Positive(traj.total_time)) =>
        LET half == FDiv(traj.total_time, R(2))
        IN  /\ traj.kind = "linear" =>
                LinearPosFirstHalf(traj, half) = LinearPosSecondHalf(traj, half)
            /\ traj.kind = "circular" =>
                CircularThetaFirstHalf(traj, half) = CircularThetaSecondHalf(traj, half)
            /\ traj.kind = "polygonal" =>
                \A i \in 1..(NumSegments - 1) :
                    LET boundary == FDiv(FMul(R(i), traj.total_time), R(4))
                    IN  Position(PolygonalTargetPose(traj, boundary))
                            = LinearPosAfter(traj.trajectories[i + 1],
                                             FDiv(boundary, R(4)))

\* t1 and t2 lie in the same acceleration phase of the same segment
SamePhase(self, t1, t2) ==
    IF self.kind = "polygonal"
    THEN /\ SelectTrajectory(self, t1) = SelectTrajectory(self, t2)
         /\ LET half == FDiv(FDiv(self.total_time, R(4)), R(2))
            IN  FLe(FDiv(t1, R(4)), half) <=> FLe(FDiv(t2, R(4)), half)
    ELSE LET half == FDiv(self.total_time, R(2))
         IN  FLe(t1, half) <=> FLe(t2, half)

\* C2: target_velocity is the time derivative of target_pose: between two
\* times of the same phase the position (for a circle: the angle theta, of
\* which the position is a smooth function) changes by the elapsed time
\* multiplied by the mean of the velocities returned at the two times.
C2_VelocityIsDerivative ==
    (traj.kind # "none" /\ Positive(traj.total_time)) =>
        \A t1 \in Times, t2 \in Times :
            (FLt(t1, t2) /\ FLe(t2, traj.total_time) /\ SamePhase(traj, t1, t2)) =>
                LET dt == FSub(t2, t1)
                IN  IF traj.kind = "circular"
                    THEN FSub(CircularTheta(traj, t2), CircularTheta(traj, t1))
                            = FMul(dt, FMul(Half, FAdd(CircularThetaDot(traj, t1),
                                                       CircularThetaDot(traj, t2))))
                    ELSE VSub(Position(TargetPoseOf(traj, t2)),
                              Position(TargetPoseOf(traj, t1)))
                            = VScale(FMul(dt, Half),
                                     VAdd(Linear(TargetVelocityOf(traj, t1)),
                                          Linear(TargetVelocityOf(traj, t2))))

\* C11: for a Linear or Circular trajectory with total_time > 0 the velocity
\* is continuous at total_time/2: there the first-branch and the
\* second-branch formula of target_velocity both give the peak velocity
\* (v_max, resp. angular_v_max at the same angle theta).
C11_VelocityContinuousAtMidpoint ==
    /\ (traj.kind = "linear" /\ Positive(traj.total_time)) =>
        LET half == FDiv(traj.total_time, R(2))
        IN  /\ LinearVelFirstHalf(traj, half) = traj.v_max
            /\ LinearVelSecondHalf(traj, half) = traj.v_max
            /\ (IsVelocity /\ ret.time = half) => Linear(ret.val) = traj.v_max
    /\ (traj.kind = "circular" /\ Positive(traj.total_time)) =>
        LET half == FDiv(traj.total_time, R(2))
        IN  /\ CircularThetaDotFirstHalf(traj, half) = traj.angular_v_max
            /\ CircularThetaDotSecondHalf(traj, half) = traj.angular_v_max
            /\ CircularThetaFirstHalf(traj, half) = CircularThetaSecondHalf(traj, half)

\* a moving line has been asked for its velocity at total_time/2 and
\* returned its peak velocity
C11_Witness ==
    /\ traj.kind = "linear"
    /\ Positive(traj.total_time)
    /\ traj.start_position # traj.goal_position
    /\ IsVelocity
    /\ ret.time = FDiv(traj.total_time, R(2))
    /\ Linear(ret.val) = traj.v_max
    /\ Linear(ret.val) # Zeros3

\* the end of the time window of segment i (segments counted from 1)
WindowEnd(self, i) == FDiv(FMul(R(i), self.total_time), R(4))

\* segment i is the first whose window ends at or after time
EarliestWindow(self, i, time) ==
    /\ FLe(time, WindowEnd(self, i))
    /\ \A j \in 1..(i - 1) : FLt(WindowEnd(self, j), time)

\* C12: for a query time in [0, total_time] a PolygonalTrajectory returns
\* what the first segment whose window ends at or after the time returns
\* for time/4; a time on a boundary between two windows takes the earlier
\* segment, and time = total_time takes the last segment.
C12_SegmentSelection ==
    (traj.kind = "polygonal" /\ Positive(traj.total_time)) =>
        /\ \A t \in Times :
            FLe(t, traj.total_time) =>
                \E i \in 1..NumSegments :
                    /\ EarliestWindow(traj, i, t)
                    /\ SelectTrajectory(traj, t) = i
                    /\ PolygonalTargetPose(traj, t)
                        = LinearTargetPose(traj.trajectories[i], FDiv(t, R(4)))
                    /\ PolygonalTargetVelocity(traj, t)
                        = LinearTargetVelocity(traj.trajectories[i], FDiv(t, R(4)))
        /\ \A i \in 1..NumSegments :
            /\ SelectTrajectory(traj, WindowEnd(traj, i)) = i
            /\ PolygonalTargetPose(traj, WindowEnd(traj, i))
                = LinearTargetPose(traj.trajectories[i], FDiv(WindowEnd(traj, i), R(4)))
        /\ SelectTrajectory(traj, traj.total_time) = NumSegments
        /\ ((IsPose \/ IsVelocity) /\ FLe(ret.time, traj.total_time)) =>
            \E i \in 1..NumSegments :
                /\ EarliestWindow(traj, i, ret.time)
                /\ IsPose => ret.val
                    = LinearTargetPose(traj.trajectories[i], FDiv(ret.time, R(4)))
                /\ IsVelocity => ret.val
                    = LinearTargetVelocity(traj.trajectories[i], FDiv(ret.time, R(4)))

\* a polygon asked for its pose at total_time has answered from its last
\* segment, whose answer differs from that of the first
C12_Witness ==
    /\ traj.kind = "polygonal"
    /\ Positive(traj.total_time)
    /\ IsPose
    /\ ret.time = traj.total_time
    /\ ret.val = LinearTargetPose(traj.trajectories[NumSegments],
                                  FDiv(traj.total_time, R(4)))
    /\ ret.val # LinearTargetPose(traj.trajectories[1], FDiv(traj.total_time, R(4)))

\* C13: PolygonalTrajectory(start_position, ar_position, points, total_time)
\* leaves an object with exactly 4 LinearTrajectory segments of duration
\* total_time/4 each: the first starts at start_position, segment i ends at
\* ar_position + points[i], and every later segment starts where the one
\* before it ends.
C13_ChainedSegments ==
    (traj.kind = "polygonal" /\ ret.op = "PolygonalTrajectory") =>
        /\ traj.total_time = ret.total_time
        /\ DOMAIN traj.trajectories = 1..4
        /\ \A i \in 1..4 :
            /\ traj.trajectories[i].kind = "linear"
            /\ traj.trajectories[i].total_time = FDiv(ret.total_time, R(4))
            /\ traj.trajectories[i].goal_position
                    = VAdd(ret.ar_position, ret.points[i])
        /\ traj.trajectories[1].start_position = ret.start_position
        /\ \A i \in 2..4 :
            traj.trajectories[i].start_position
                = traj.trajectories[i - 1].goal_position

\* a polygon has been constructed whose second segment starts at the goal
\* of the first, away from start_position
C13_Witness ==
    /\ traj.kind = "polygonal"
    /\ ret.op = "PolygonalTrajectory"
    /\ Positive(traj.total_time)
    /\ traj.trajectories[2].start_position = traj.trajectories[1].goal_position
    /\ traj.trajectories[2].start_position # ret.start_position
    /\ traj.trajectories[2].goal_position # traj.trajectories[2].start_position

=============================================================================
